---- MODULE Spec2Model ----
(***************************************************************************)
(* Model of the CloudWatch metric buffer of pkg/monitoring/cloudwatch.go:  *)
(* putMetric (Submit), flushLoop (the background loop driven by the        *)
(* ticker), flushMetrics (one flush pass: Swap, chunking, PutMetricData,   *)
(* re-append of a failed chunk) and Close.                                 *)
(*                                                                         *)
(* A metric point is identified by its submission number 1, 2, 3, ...      *)
(* The critical sections guarded by bufferMutex are single steps.          *)
(***************************************************************************)
EXTENDS Integers, Sequences, FiniteSets, TLC

\* ---- bounds of the model ------------------------------------------------
MaxSubmits == 2      \* putMetric calls after the first burst
MaxSpawned == 2      \* flush goroutines spawned by putMetric
MaxFailures == 1     \* failing PutMetricData calls (the sink then accepts)

\* ---- program constants --------------------------------------------------
MaxMetricsPerRequest == 20
DefaultBufferSize == 20
MaxRetries == 3
TestBufferSize == 5

\* the values of config.MetricBufferSize the model is run with
BufferSizes == {TestBufferSize, DefaultBufferSize}

\* A behaviour starts after a first burst of putMetric calls that arrived
\* before the first tick: none, or as many as leave the buffer one short of
\* MetricBufferSize, so that no flush was started yet.
FirstBursts(size) == {0, size - 1}

Points == 1..(DefaultBufferSize - 1 + MaxSubmits)

\* ---- tasks that run flushMetrics ----------------------------------------
CloseTask == -1                 \* the caller of Close
LoopTask == 0                   \* the goroutine started by NewCloudWatch
GoTasks == 1..MaxSpawned        \* the goroutines started by putMetric
Tasks == {CloseTask, LoopTask} \cup GoTasks

VARIABLES
  metricBuffer,      \* cw.metricBuffer
  MetricBufferSize,  \* cw.config.MetricBufferSize
  tickPending,       \* a tick is waiting in cw.bufferTicker.C
  tickerStopped,     \* cw.bufferTicker.Stop() was called
  stopClosed,        \* cw.stopCh is closed
  loopExited,        \* flushLoop has returned
  pass,              \* per task: the flushMetrics call it runs or ran last
  nSpawned,          \* goroutines started by putMetric so far
  closeResult,       \* what Close returned: "none" until it returns
  closeMark,         \* number of points submitted when Close was called
  nsub,              \* number of points submitted so far
  nput,              \* putMetric calls after the first burst
  failures,          \* failed PutMetricData calls so far
  accepted,          \* per point: PutMetricData calls that returned nil with it
  attempted,         \* points that were in some PutMetricData call
  taken,             \* per point: snapshots (metricsToSend) it was copied to
  requeued,          \* per point: times it was re-appended after a failure
  namespace,         \* cw.namespace
  config,            \* cw.config: the flags and CustomDimensions
  datum,             \* per point: the MetricDatum putMetric built for it
  hook,              \* the monitoring hook that is running, if any
  bufferMutex,       \* cw.bufferMutex: the goroutines between Lock and Unlock
  call               \* a call of a function of the package and its result

vars == <<metricBuffer, MetricBufferSize, tickPending, tickerStopped,
          stopClosed, loopExited, pass, nSpawned, closeResult, closeMark,
          nsub, nput, failures, accepted, attempted, taken, requeued,
          namespace, config, datum, hook, bufferMutex, call>>

\* what the buffering steps leave alone, but for the lock
unlocked == <<namespace, config, hook, call>>

\* what the buffering steps of Spec leave alone
others == <<namespace, config, hook, bufferMutex, call>>

\* ---- helpers --------------------------------------------------------------
Range(s) == {s[k] : k \in 1..Len(s)}

Min(a, b) == IF a < b THEN a ELSE b

\* one more for every point of set S
Bump(f, S) == [x \in DOMAIN f |-> IF x \in S THEN f[x] + 1 ELSE f[x]]

\* a task that is not inside flushMetrics and never was
IdlePass == [kind |-> "none", pc |-> "idle", snap |-> <<>>, i |-> 0,
             calls |-> 0, fails |-> 0, ret |-> "none", sent |-> <<>>]

\* entry of flushMetrics, before bufferMutex.Lock()
NewPass(kind) == [IdlePass EXCEPT !.kind = kind, !.pc = "swap"]

\* ---- Config (config.go) ---------------------------------------------------
DefaultNamespace == "GenKit/AWS"

\* a map[string]string: nil, or a set of <<key, value>> pairs with one value
\* per key
NilMap == [nil |-> TRUE, entries |-> {}]

MakeMap(entries) == [nil |-> FALSE, entries |-> entries]

Keys(m) == {e[1] : e \in m.entries}

\* the zero value of Config
EmptyConfig == [Namespace |-> "", EnableFlowMetrics |-> FALSE,
                EnableModelMetrics |-> FALSE, EnableXRayTracing |-> FALSE,
                CustomDimensions |-> NilMap, MetricBufferSize |-> 0]

Validate_SizeFirst(c) ==
  IF c.MetricBufferSize < 0 THEN "metric_buffer_size must be non-negative"
  ELSE IF c.Namespace = "" THEN "namespace is required"
  ELSE "nil"

\* Config.Validate, config.go:34-44: the error text, or "nil"
Validate(c) ==
  IF c.Namespace = "" THEN "namespace is required"
  ELSE IF c.MetricBufferSize < 0 THEN "metric_buffer_size must be non-negative"
  ELSE "nil"

SetDefaults_OnlyWithoutXRay(c) ==
  LET c1 == IF c.Namespace = ""
            THEN [c EXCEPT !.Namespace = DefaultNamespace] ELSE c
      c2 == IF ~c1.EnableFlowMetrics /\ ~c1.EnableModelMetrics
               /\ ~c1.EnableXRayTracing
            THEN [c1 EXCEPT !.EnableFlowMetrics = TRUE,
                            !.EnableModelMetrics = TRUE]
            ELSE c1
      c3 == IF c2.MetricBufferSize = 0
            THEN [c2 EXCEPT !.MetricBufferSize = DefaultBufferSize] ELSE c2
      c4 == IF c3.CustomDimensions.nil
            THEN [c3 EXCEPT !.CustomDimensions = MakeMap({})] ELSE c3
  IN c4

\* Config.SetDefaults, config.go:47-69, statement by statement
SetDefaults(c) ==
  LET c1 == IF c.Namespace = ""
            THEN [c EXCEPT !.Namespace = DefaultNamespace] ELSE c
      c2 == IF ~c1.EnableFlowMetrics /\ ~c1.EnableModelMetrics
               /\ ~c1.EnableXRayTracing
            THEN [c1 EXCEPT !.EnableFlowMetrics = TRUE,
                            !.EnableModelMetrics = TRUE]
            ELSE IF c1.EnableXRayTracing /\ ~c1.EnableFlowMetrics
                    /\ ~c1.EnableModelMetrics
            THEN [c1 EXCEPT !.EnableFlowMetrics = TRUE,
                            !.EnableModelMetrics = TRUE]
            ELSE c1
      c3 == IF c2.MetricBufferSize = 0
            THEN [c2 EXCEPT !.MetricBufferSize = DefaultBufferSize] ELSE c2
      c4 == IF c3.CustomDimensions.nil
            THEN [c3 EXCEPT !.CustomDimensions = MakeMap({})] ELSE c3
  IN c4

\* ---- MetricDatum ---------------------------------------------------------
\* no datum was built for the point yet
NoDatum == [name |-> "none", dims |-> <<>>]

\* cloudwatch.go:124-130
MetricDatum(metricName, dimensions) == [name |-> metricName, dims |-> dimensions]

\* the dimensions of the points of Spec: those OnFlowStart builds for one
\* flow when there are no custom dimensions
FlowDims == <<[Name |-> "FlowName", Value |-> "flow"]>>

\* no hook is running; calls counts the hook calls so far and start is the
\* number of points submitted when the last one was called
NoHook == [name |-> "none", todo |-> <<>>, dims |-> <<>>, calls |-> 0,
           start |-> 0]

\* bufferMutex is unlocked: no goroutine is between Lock and Unlock
Free == {}

\* no function call is being looked at
NoCall == [fn |-> "none"]

\* ---- putMetric ------------------------------------------------------------
AppendMetric_Front(buf, metric) == <<metric>> \o buf

\* cloudwatch.go:135
AppendMetric(buf, metric) == Append(buf, metric)

ShouldFlush_OnlyAtThreshold(buf, size) == Len(buf) = size

ShouldFlush_Strict(buf, size) == Len(buf) > size

\* cloudwatch.go:138
ShouldFlush(buf, size) == Len(buf) >= size

\* ---- flushMetrics ---------------------------------------------------------
CopyBuffer_Short(buf) == SubSeq(buf, 1, Len(buf) - 1)

\* cloudwatch.go:166-167: metricsToSend is a copy of the buffer
CopyBuffer(buf) == buf

ResetBuffer_Kept(buf) == buf

\* cloudwatch.go:168: cw.metricBuffer = cw.metricBuffer[:0]
ResetBuffer(buf) == SubSeq(buf, 1, 0)

AfterSwap_NoEmptyCheck(snap) == "send"

\* cloudwatch.go:171-173 and the loop test of line 178 before the first chunk
AfterSwap(snap) == IF Len(snap) = 0 THEN "done" ELSE "send"

Batch_TooLong(snap, i) ==
  SubSeq(snap, i + 1, Min(i + MaxMetricsPerRequest + 1, Len(snap)))

\* cloudwatch.go:179-184: batch := metricsToSend[i:end]
Batch(snap, i) == SubSeq(snap, i + 1, Min(i + MaxMetricsPerRequest, Len(snap)))

\* cloudwatch.go:178: i += maxMetricsPerRequest; i < len(metricsToSend)
NextIndex(i) == i + MaxMetricsPerRequest

MoreChunks(snap, i) == i < Len(snap)

ReAppend_AtFront(buf, snap, i) ==
  SubSeq(snap, i + 1, Min(i + MaxMetricsPerRequest, Len(snap))) \o buf

ReAppend_WholeSnapshot(buf, snap, i) == buf \o snap

\* cloudwatch.go:185-188: the request of one PutMetricData call
PutMetricDataInput(ns, batch) == [Namespace |-> ns, MetricData |-> batch]

\* cloudwatch.go:192: append(cw.metricBuffer, batch...)
ReAppend(buf, snap, i) == buf \o Batch(snap, i)

AfterFailure_Continue(snap, i) ==
  IF MoreChunks(snap, NextIndex(i)) THEN "send" ELSE "done"

\* cloudwatch.go:194: return err
AfterFailure(snap, i) == "done"

Returned_FromAnyPass(t, ret, old) == ret

Returned_Nil(t, ret, old) == IF t = CloseTask THEN "nil" ELSE old

\* cloudwatch.go:57: Close returns what flushMetrics returned;
\* cloudwatch.go:140-143 and 153-156 discard it
Returned(t, ret, old) == IF t = CloseTask THEN ret ELSE old

\* number of PutMetricData calls that cover n points
NumChunks(n) == (n + MaxMetricsPerRequest - 1) \div MaxMetricsPerRequest

\* the points a running pass still holds: the chunk in the call and those after
Pending(p) == IF p.pc \in {"send", "requeue"}
              THEN Range(SubSeq(p.snap, p.i + 1, Len(p.snap)))
              ELSE {}

Active(p) == p.pc \in {"swap", "send", "requeue"}

\* ---- initial state: NewCloudWatch returned -------------------------------
Init ==
  /\ MetricBufferSize \in BufferSizes
  /\ nsub \in FirstBursts(MetricBufferSize)
  /\ metricBuffer = [k \in 1..nsub |-> k]
  /\ nput = 0
  /\ tickPending = FALSE
  /\ tickerStopped = FALSE
  /\ stopClosed = FALSE
  /\ loopExited = FALSE
  /\ pass = [t \in Tasks |-> IdlePass]
  /\ nSpawned = 0
  /\ closeResult = "none"
  /\ closeMark = 0
  /\ failures = 0
  /\ accepted = [x \in Points |-> 0]
  /\ attempted = {}
  /\ taken = [x \in Points |-> 0]
  /\ requeued = [x \in Points |-> 0]
  /\ config = [SetDefaults(EmptyConfig) EXCEPT
                 !.MetricBufferSize = MetricBufferSize]
  /\ namespace = config.Namespace
  /\ datum = [x \in Points |->
               IF x <= nsub THEN MetricDatum("FlowStarted", FlowDims)
               ELSE NoDatum]
  /\ hook = NoHook
  /\ bufferMutex = Free
  /\ call = NoCall

\* ---- actions -------------------------------------------------------------
\* putMetric, cloudwatch.go:123-146: append under the lock and, when the
\* buffer is full, start a goroutine that runs flushMetrics
PutMetric(metricName, dimensions) ==
  /\ nput' = nput + 1
  /\ datum' = [datum EXCEPT ![nsub + 1] = MetricDatum(metricName, dimensions)]
  /\ LET buf == AppendMetric(metricBuffer, nsub + 1) IN
       /\ metricBuffer' = buf
       /\ nsub' = nsub + 1
       /\ IF ShouldFlush(buf, MetricBufferSize)
          THEN /\ nSpawned < MaxSpawned
               /\ nSpawned' = nSpawned + 1
               /\ pass' = [pass EXCEPT ![nSpawned + 1] = NewPass("threshold")]
          ELSE UNCHANGED <<nSpawned, pass>>

\* a putMetric call without the lock, and what it leaves alone
PutMetricCall(metricName, dimensions) ==
  /\ PutMetric(metricName, dimensions)
  /\ UNCHANGED <<MetricBufferSize, tickPending, tickerStopped, stopClosed,
                 loopExited, closeResult, closeMark, failures, accepted,
                 attempted, taken, requeued>>

\* a putMetric call as OnFlowStart makes it, without the lock
DoPutMetric ==
  /\ nput < MaxSubmits
  /\ PutMetricCall("FlowStarted", FlowDims)
  /\ UNCHANGED unlocked

\* putMetric with its critical section as one step
putMetric == DoPutMetric /\ UNCHANGED bufferMutex

\* the ticker of cloudwatch.go:45 fires; its channel holds one tick
Tick ==
  /\ ~tickerStopped
  /\ ~tickPending
  /\ tickPending' = TRUE
  /\ UNCHANGED <<datum, others>>
  /\ UNCHANGED <<metricBuffer, MetricBufferSize, tickerStopped, stopClosed,
                 loopExited, pass, nSpawned, closeResult, closeMark, nsub, nput,
                 failures, accepted, attempted, taken, requeued>>

LoopAtSelect == ~loopExited /\ pass[LoopTask].pc \in {"idle", "done"}

\* flushLoop, cloudwatch.go:152-153: case <-cw.bufferTicker.C
flushLoopTick ==
  /\ LoopAtSelect
  /\ tickPending
  /\ tickPending' = FALSE
  /\ pass' = [pass EXCEPT ![LoopTask] = NewPass("timer")]
  /\ UNCHANGED <<datum, others>>
  /\ UNCHANGED <<metricBuffer, MetricBufferSize, tickerStopped, stopClosed,
                 loopExited, nSpawned, closeResult, closeMark, nsub, nput, failures,
                 accepted, attempted, taken, requeued>>

\* flushLoop, cloudwatch.go:157-158: case <-cw.stopCh
flushLoopStop ==
  /\ LoopAtSelect
  /\ stopClosed
  /\ loopExited' = TRUE
  /\ UNCHANGED <<datum, others>>
  /\ UNCHANGED <<metricBuffer, MetricBufferSize, tickPending, tickerStopped,
                 stopClosed, pass, nSpawned, closeResult, closeMark, nsub, nput,
                 failures, accepted, attempted, taken, requeued>>

\* Close, cloudwatch.go:52-57: close(stopCh), Stop the ticker, enter
\* flushMetrics
Close ==
  /\ ~stopClosed
  /\ stopClosed' = TRUE
  /\ tickerStopped' = TRUE
  /\ closeMark' = nsub
  /\ pass' = [pass EXCEPT ![CloseTask] = NewPass("close")]
  /\ UNCHANGED <<datum, others>>
  /\ UNCHANGED <<metricBuffer, MetricBufferSize, tickPending, loopExited,
                 nSpawned, closeResult, nsub, nput, failures, accepted, attempted,
                 taken, requeued>>

\* flushMetrics, cloudwatch.go:166-173: Swap, and return nil when empty
DoSwap(t) ==
  /\ pass[t].pc = "swap"
  /\ LET snap == CopyBuffer(metricBuffer)
         pc == AfterSwap(snap) IN
       /\ metricBuffer' = ResetBuffer(metricBuffer)
       /\ taken' = Bump(taken, Range(snap))
       /\ pass' = [pass EXCEPT ![t].snap = snap, ![t].pc = pc,
                               ![t].ret = IF pc = "done" THEN "nil" ELSE "none"]
       /\ closeResult' = IF pc = "done"
                         THEN Returned(t, "nil", closeResult)
                         ELSE closeResult
  /\ UNCHANGED <<datum, unlocked>>
  /\ UNCHANGED <<MetricBufferSize, tickPending, tickerStopped, stopClosed,
                 loopExited, nSpawned, closeMark, nsub, nput, failures, accepted,
                 attempted, requeued>>

\* the Swap with its critical section as one step
Swap(t) == DoSwap(t) /\ UNCHANGED bufferMutex

\* flushMetrics, cloudwatch.go:184-189 and 178: PutMetricData returns nil
SendOK(t) ==
  /\ pass[t].pc = "send"
  /\ LET p == pass[t]
         batch == Batch(p.snap, p.i)
         j == NextIndex(p.i)
         more == MoreChunks(p.snap, j) IN
       /\ accepted' = Bump(accepted, Range(batch))
       /\ attempted' = attempted \cup Range(batch)
       /\ pass' = [pass EXCEPT ![t].i = j, ![t].calls = p.calls + 1,
                               ![t].sent = Append(p.sent,
                                   PutMetricDataInput(namespace, batch)),
                               ![t].pc = IF more THEN "send" ELSE "done",
                               ![t].ret = IF more THEN "none" ELSE "nil"]
       /\ closeResult' = IF more THEN closeResult
                         ELSE Returned(t, "nil", closeResult)
  /\ UNCHANGED <<datum, others>>
  /\ UNCHANGED <<metricBuffer, MetricBufferSize, tickPending, tickerStopped,
                 stopClosed, loopExited, nSpawned, closeMark, nsub, nput, failures,
                 taken, requeued>>

\* flushMetrics, cloudwatch.go:185-189: PutMetricData returns an error
DoSendFail(t) ==
  /\ pass[t].pc = "send"
  /\ LET p == pass[t]
         batch == Batch(p.snap, p.i) IN
       /\ attempted' = attempted \cup Range(batch)
       /\ pass' = [pass EXCEPT ![t].calls = p.calls + 1,
                               ![t].sent = Append(p.sent,
                                   PutMetricDataInput(namespace, batch)),
                               ![t].fails = p.fails + 1,
                               ![t].pc = "requeue"]
  /\ failures' = failures + 1
  /\ UNCHANGED <<datum, others>>
  /\ UNCHANGED <<metricBuffer, MetricBufferSize, tickPending, tickerStopped,
                 stopClosed, loopExited, nSpawned, closeResult, closeMark,
                 nsub, nput, accepted, taken, requeued>>

\* a PutMetricData call fails, while the sink has failures left to give
SendFail(t) ==
  /\ failures < MaxFailures
  /\ DoSendFail(t)

\* flushMetrics, cloudwatch.go:190-194: re-append the failed batch under the
\* lock and return the error
DoRequeue(t) ==
  /\ pass[t].pc = "requeue"
  /\ LET p == pass[t]
         pc == AfterFailure(p.snap, p.i) IN
       /\ metricBuffer' = ReAppend(metricBuffer, p.snap, p.i)
       /\ requeued' = Bump(requeued, Range(metricBuffer') \ Range(metricBuffer))
       /\ pass' = [pass EXCEPT ![t].pc = pc, ![t].ret = "err"]
       /\ closeResult' = Returned(t, "err", closeResult)
  /\ UNCHANGED <<datum, unlocked>>
  /\ UNCHANGED <<MetricBufferSize, tickPending, tickerStopped, stopClosed,
                 loopExited, nSpawned, closeMark, nsub, nput, failures, accepted,
                 attempted, taken>>

\* the re-append with its critical section as one step
Requeue(t) == DoRequeue(t) /\ UNCHANGED bufferMutex

flushMetrics ==
  \E t \in Tasks : Swap(t) \/ SendOK(t) \/ SendFail(t) \/ Requeue(t)

Next ==
  \/ putMetric
  \/ Tick
  \/ flushLoopTick
  \/ flushLoopStop
  \/ Close
  \/ flushMetrics

Spec == Init /\ [][Next]_vars

\* ---- the critical sections, step by step ---------------------------------
\* the goroutines that call putMetric
Producers == {101, 102}

Unlock_Missing(m, holder) == m

\* bufferMutex.Unlock(), cloudwatch.go:133, 169 and 193
Unlock(m, holder) == m \ {holder}

CanLock_Always(m) == TRUE

\* bufferMutex.Lock() returns only while the mutex is unlocked,
\* cloudwatch.go:132, 165 and 191
CanLock(m) == m = Free

\* bufferMutex.Lock() in putMetric, cloudwatch.go:132
LockPutMetric(c) ==
  /\ nput < MaxSubmits
  /\ c \notin bufferMutex
  /\ CanLock(bufferMutex)
  /\ bufferMutex' = bufferMutex \cup {c}
  /\ UNCHANGED <<datum, unlocked>>
  /\ UNCHANGED <<metricBuffer, MetricBufferSize, tickPending, tickerStopped,
                 stopClosed, loopExited, pass, nSpawned, closeResult,
                 closeMark, nsub, nput, failures, accepted, attempted, taken,
                 requeued>>

\* putMetric, cloudwatch.go:133-146, holding the lock until it returns
putMetricLocked(c) ==
  /\ c \in bufferMutex
  /\ DoPutMetric
  /\ bufferMutex' = Unlock(bufferMutex, c)

\* bufferMutex.Lock() in flushMetrics, cloudwatch.go:165 and 191
LockFlush(t) ==
  /\ pass[t].pc \in {"swap", "requeue"}
  /\ t \notin bufferMutex
  /\ CanLock(bufferMutex)
  /\ bufferMutex' = bufferMutex \cup {t}
  /\ UNCHANGED <<datum, unlocked>>
  /\ UNCHANGED <<metricBuffer, MetricBufferSize, tickPending, tickerStopped,
                 stopClosed, loopExited, pass, nSpawned, closeResult,
                 closeMark, nsub, nput, failures, accepted, attempted, taken,
                 requeued>>

\* flushMetrics, cloudwatch.go:166-169
SwapLocked(t) ==
  /\ t \in bufferMutex
  /\ DoSwap(t)
  /\ bufferMutex' = Unlock(bufferMutex, t)

\* flushMetrics, cloudwatch.go:192-194
RequeueLocked(t) ==
  /\ t \in bufferMutex
  /\ DoRequeue(t)
  /\ bufferMutex' = Unlock(bufferMutex, t)

NextLocked ==
  \/ \E c \in Producers : LockPutMetric(c) \/ putMetricLocked(c)
  \/ \E t \in Tasks : \/ LockFlush(t) \/ SwapLocked(t) \/ RequeueLocked(t)
                       \/ SendOK(t) \/ SendFail(t)
  \/ Tick
  \/ flushLoopTick
  \/ flushLoopStop
  \/ Close

LockSpec == Init /\ [][NextLocked]_vars

\* The instance while it is running: Close is not called.
NextRunning ==
  \/ putMetric
  \/ Tick
  \/ flushLoopTick
  \/ flushMetrics

\* The scheduler runs every goroutine that can take a step, the ticker keeps
\* firing while it is not stopped, and a PutMetricData call returns; callers
\* need not call putMetric.
Fairness ==
  /\ WF_vars(Tick)
  /\ WF_vars(flushLoopTick)
  /\ \A t \in Tasks : WF_vars(Swap(t) \/ SendOK(t) \/ Requeue(t))

RunningSpec == Init /\ [][NextRunning]_vars /\ Fairness

\* ---- properties of a flush pass ------------------------------------------
InBuffer(x) == x \in Range(metricBuffer)

\* x is in the part of a snapshot that a running pass has not dealt with yet
InFlight(x) == \E t \in Tasks : x \in Pending(pass[t])

Finished(t) == pass[t].pc = "done"

\* C1: every point that a flush pass took out of the buffer is, once the
\* pass has finished, accepted by the sink or back in the buffer (where a
\* later pass may have taken it again); no point is dropped undelivered.
C1_TakenPointsDeliveredOrRequeued ==
  \A t \in Tasks :
    Finished(t) =>
      \A x \in Range(pass[t].snap) :
        accepted[x] > 0 \/ InBuffer(x) \/ InFlight(x)

\* C2: when Close has returned, every point submitted before Close was
\* called has been in at least one PutMetricData call.
C2_CloseAttemptsEverySubmittedPoint ==
  closeResult # "none" => \A x \in 1..closeMark : x \in attempted

\* C3: a pass does not abort at a failing chunk: when it has finished it has
\* called the sink once for every chunk of its snapshot.
C3_PassCallsSinkForEveryChunk ==
  \A t \in Tasks :
    Finished(t) => pass[t].calls = NumChunks(Len(pass[t].snap))

\* C4: after a failed sink call exactly the points of the failed batch are
\* appended to the buffer, in their order; a successful call appends nothing,
\* and a point the sink accepted is never in the buffer again.
C4_ExactlyFailedBatchRequeued ==
  [][ /\ \A t \in Tasks :
           /\ (pass[t].pc = "requeue" /\ pass'[t].pc # "requeue") =>
                LET p == pass[t]
                    last == Min(p.i + MaxMetricsPerRequest, Len(p.snap)) IN
                  metricBuffer' =
                    metricBuffer \o [k \in 1..(last - p.i) |-> p.snap[p.i + k]]
           /\ (pass[t].pc = "send" /\ pass'[t] # pass[t]) =>
                metricBuffer' = metricBuffer
      /\ \A x \in Points : accepted[x] > 0 => x \notin Range(metricBuffer')
    ]_vars

\* a chunk of a pass of several chunks failed, was re-appended and was
\* accepted in a later pass
C4_Witness ==
  \E t \in Tasks :
    /\ Finished(t) /\ pass[t].ret = "err"
    /\ Len(pass[t].snap) > MaxMetricsPerRequest
    /\ \E x \in Range(pass[t].snap) : requeued[x] > 0 /\ accepted[x] > 0

NoDuplicates(s) == \A j, k \in 1..Len(s) : j # k => s[j] # s[k]

\* C5: Swap is atomic: a point is in a second snapshot only after it was
\* re-appended, the parts of their snapshots that running passes still hold
\* are disjoint from one another and from the buffer, every submitted point
\* is in the buffer or was in some snapshot, and the sink accepts no point
\* twice.
C5_SwapAtomic ==
  /\ \A x \in Points : taken[x] <= 1 + requeued[x]
  /\ \A t, u \in Tasks : t # u => Pending(pass[t]) \cap Pending(pass[u]) = {}
  /\ \A t \in Tasks : Pending(pass[t]) \cap Range(metricBuffer) = {}
  /\ NoDuplicates(metricBuffer)
  /\ \A x \in 1..nsub : taken[x] > 0 \/ InBuffer(x)
  /\ \A x \in Points : accepted[x] <= 1

\* two passes hold non-empty snapshots at the same time, with points
\* submitted after the first Swap
C5_Witness ==
  \E t, u \in Tasks :
    /\ t # u
    /\ Pending(pass[t]) # {} /\ Pending(pass[u]) # {}
    /\ nput > 1

AllSubmittedAccepted == \A x \in 1..nsub : accepted[x] > 0

\* C6: while the instance is running, every submitted point is eventually
\* accepted by the sink (the ticker keeps firing, goroutines are scheduled
\* and the sink fails at most MaxFailures times): again and again all the
\* points submitted so far have been accepted.
C6_SubmittedEventuallyAccepted == []<>AllSubmittedAccepted

\* C7: Close runs one flush pass, returns only when that pass has finished,
\* and returns nil if none of the pass's sink calls failed and the error
\* otherwise; a pass over a non-empty snapshot calls the sink.
C7_CloseReturnsResultOfItsPass ==
  LET p == pass[CloseTask] IN
    /\ Active(p) => closeResult = "none"
    /\ closeResult # "none" =>
         /\ Finished(CloseTask)
         /\ closeResult = (IF p.fails = 0 THEN "nil" ELSE "err")
         /\ Len(p.snap) > 0 => p.calls > 0
    /\ (stopClosed /\ ~Finished(CloseTask)) => closeResult = "none"

\* Close found points in the buffer and returned the error of a failed call
C7_Witness ==
  /\ closeResult = "err"
  /\ Len(pass[CloseTask].snap) > 0
  /\ pass[CloseTask].fails > 0

\* C8: a pass whose Swap returned an empty sequence makes no sink call and
\* returns nil; so does Close on an empty buffer.
C8_EmptySwapMakesNoCall ==
  \A t \in Tasks :
    (Finished(t) /\ Len(pass[t].snap) = 0) =>
      /\ pass[t].calls = 0
      /\ pass[t].ret = "nil"
      /\ t = CloseTask => closeResult = "nil"

\* Close ran on an empty buffer and returned
C8_Witness ==
  /\ Finished(CloseTask)
  /\ Len(pass[CloseTask].snap) = 0
  /\ closeResult = "nil"

\* C9: a putMetric that leaves at least MetricBufferSize points in the buffer
\* starts a flush pass on a new goroutine in the same step, with no tick
\* involved, and the buffer is empty right after the Swap of any pass.
C9_ThresholdStartsFlush ==
  [][ /\ (nsub' = nsub + 1 /\ Len(metricBuffer') >= MetricBufferSize) =>
           /\ nSpawned' = nSpawned + 1
           /\ pass'[nSpawned'].kind = "threshold"
           /\ pass'[nSpawned'].pc = "swap"
           /\ tickPending' = tickPending
      /\ \A t \in Tasks :
           (pass[t].pc = "swap" /\ pass'[t].pc # "swap") =>
             Len(metricBuffer') = 0
    ]_vars

\* a pass started by putMetric took a full buffer and finished although the
\* loop never received a tick
C9_Witness ==
  \E t \in GoTasks :
    /\ Finished(t)
    /\ pass[t].kind = "threshold"
    /\ Len(pass[t].snap) >= MetricBufferSize
    /\ pass[LoopTask].pc = "idle"

\* fewer than MetricBufferSize points were submitted, no sink call failed and
\* Close was not called
BelowThreshold == failures = 0 /\ ~stopClosed /\ nsub < MetricBufferSize

\* C10: with fewer than MetricBufferSize points submitted and a sink that
\* succeeds, no sink call happens before the loop receives a tick, every
\* sink call is made by the loop's pass, and the pass of a tick delivers all
\* the points it found, each exactly once.
C10_BelowThresholdOneTimerFlush ==
  BelowThreshold =>
    /\ nSpawned = 0
    /\ \A t \in Tasks \ {LoopTask} : pass[t].calls = 0
    /\ pass[LoopTask].pc = "idle" =>
         /\ attempted = {}
         /\ metricBuffer = [k \in 1..nsub |-> k]
    /\ \A x \in 1..nsub : taken[x] <= 1 /\ accepted[x] <= 1
    /\ Finished(LoopTask) =>
         /\ \A x \in Range(pass[LoopTask].snap) : accepted[x] = 1
         /\ \A x \in 1..nsub : accepted[x] = 1 \/ InBuffer(x)
         /\ pass[LoopTask].calls = NumChunks(Len(pass[LoopTask].snap))

\* the pass of a tick delivered every point submitted before it
C10_Witness ==
  /\ BelowThreshold
  /\ Finished(LoopTask)
  /\ nsub > 1
  /\ \A x \in 1..nsub : accepted[x] = 1

\* ---- the first threshold crossing ------------------------------------------
\* MetricBufferSize is 20 and only putMetric calls and the goroutines they
\* started have run: no tick was received, Close was not called, no sink call
\* failed
OnlyThresholdFlushes ==
  /\ MetricBufferSize = DefaultBufferSize
  /\ pass[LoopTask].pc = "idle"
  /\ ~stopClosed
  /\ failures = 0

\* s is a run a, a+1, ..., b of submission numbers
Consecutive(s) == \A k \in 1..(Len(s) - 1) : s[k + 1] = s[k] + 1

RECURSIVE ConcatData(_)
\* the points of a sequence of requests, in call order
ConcatData(reqs) ==
  IF Len(reqs) = 0 THEN <<>>
  ELSE reqs[1].MetricData \o ConcatData(Tail(reqs))

\* the least c with 20 * c >= n
CeilDiv20(n) == CHOOSE c \in 0..n : 20 * c >= n /\ 20 * (c - 1) < n

\* C12: a pass over N > 0 points whose sink calls all succeed makes
\* ceil(N/20) calls; each carries 1 to 20 points and the configured
\* namespace, and the chunks, put together in call order, are the snapshot.
C12_ChunksCoverSnapshotInOrder ==
  \A t \in Tasks :
    LET p == pass[t] IN
      (Finished(t) /\ p.fails = 0 /\ Len(p.snap) > 0) =>
        /\ Len(p.sent) = CeilDiv20(Len(p.snap))
        /\ p.calls = Len(p.sent)
        /\ \A k \in 1..Len(p.sent) :
             /\ Len(p.sent[k].MetricData) \in 1..20
             /\ p.sent[k].Namespace = config.Namespace
        /\ ConcatData(p.sent) = p.snap

\* a pass delivered 21 points in two calls
C12_Witness ==
  \E t \in Tasks :
    /\ Finished(t) /\ pass[t].fails = 0
    /\ Len(pass[t].snap) = 21
    /\ Len(pass[t].sent) = 2

\* ---- lifecycle ---------------------------------------------------------------
\* the loop enters flushMetrics in this step
TimerPassStarts ==
  pass[LoopTask].pc # "swap" /\ pass'[LoopTask].pc = "swap"

\* C13: Running -> Stopped is one-way: stopCh stays closed, the loop, once
\* it has exited, never runs again, and no timer-triggered flush pass starts
\* after Close has begun.
C13_NoTimerPassAfterClose ==
  [][ /\ stopClosed => stopClosed'
      /\ loopExited => (loopExited' /\ pass'[LoopTask] = pass[LoopTask])
      /\ stopClosed => ~TimerPassStarts
    ]_vars

\* ---- the lock -----------------------------------------------------------------
\* C14: putMetric never waits for a sink call: a task that is inside a
\* PutMetricData call does not hold bufferMutex, whoever holds it is inside
\* one of the short critical sections, a putMetric step makes no sink call,
\* a threshold-triggered pass runs on a goroutine of its own and a
\* timer-triggered pass on the loop.
C14_NoSinkCallUnderLock ==
  [][ /\ \A t \in Tasks :
           /\ pass'[t].pc = "send" => t \notin bufferMutex'
           /\ pass'[t].kind = "threshold" => t \in GoTasks
           /\ pass'[t].kind = "timer" => t = LoopTask
           /\ pass'[t].kind = "close" => t = CloseTask
      /\ \A t \in bufferMutex' \cap Tasks :
           pass'[t].pc \in {"swap", "requeue"}
      /\ nsub' # nsub =>
           /\ bufferMutex \cap Producers # {}
           /\ attempted' = attempted
           /\ \A t \in Tasks : pass'[t].sent = pass[t].sent
    ]_vars

\* a producer is inside putMetric while a PutMetricData call is in progress
C14_Witness ==
  \E c \in Producers, t \in Tasks :
    /\ c \in bufferMutex
    /\ pass[t].pc = "send"
    /\ pass[t].kind = "threshold"

\* ---- putMetric with any metric name --------------------------------------
\* the names a caller can pass: putMetric takes any string
MetricNames == {"", "FlowStarted"}

\* putMetric(ctx, metricName, 1.0, dimensions), cloudwatch.go:123-146, with
\* its critical section as one step
putMetricNamed(metricName) ==
  /\ nput < MaxSubmits
  /\ PutMetricCall(metricName, FlowDims)
  /\ UNCHANGED others

NextSubmit ==
  \/ \E metricName \in MetricNames : putMetricNamed(metricName)
  \/ Tick
  \/ flushLoopTick
  \/ flushMetrics

SubmitSpec == Init /\ [][NextSubmit]_vars

\* the points of a request
NamesSent(req) == {datum[x].name : x \in Range(req.MetricData)}

One == 10

\* ModelConfig.Validate, bedrock/config.go:69-83
ModelConfigValidate(mc) ==
  IF mc.MaxTokens < 0 THEN "max_tokens must be non-negative"
  ELSE IF mc.Temperature < 0 \/ mc.Temperature > One
  THEN "temperature must be between 0.0 and 1.0"
  ELSE IF mc.TopP < 0 \/ mc.TopP > One
  THEN "top_p must be between 0.0 and 1.0"
  ELSE "nil"

\* bedrock Config.Validate, bedrock/config.go:41-66: the chain of wrapped
\* errors, outermost first, <<>> for nil. ModelConfigs is the set of the
\* map's values; which invalid one the range loop meets first is not fixed.
BedrockValidate(b) ==
  IF Len(b.Models) = 0 THEN {<<"at least one model must be specified">>}
  ELSE IF \E k \in 1..Len(b.Models) : b.Models[k] = ""
  THEN {<<"model ID cannot be empty">>}
  ELSE IF \E mc \in b.ModelConfigs : ModelConfigValidate(mc) # "nil"
  THEN {<<"invalid config for model", ModelConfigValidate(mc)>> :
          mc \in {m \in b.ModelConfigs : ModelConfigValidate(m) # "nil"}}
  ELSE IF ~b.DefaultModelConfig.nil
          /\ ModelConfigValidate(b.DefaultModelConfig.val) # "nil"
  THEN {<<"invalid default model config",
          ModelConfigValidate(b.DefaultModelConfig.val)>>}
  ELSE {<<>>}

PluginValidate_SkipsCloudWatch(pc) ==
  IF pc.Region = "" THEN {<<"region is required">>}
  ELSE IF ~pc.Bedrock.nil /\ BedrockValidate(pc.Bedrock.val) # {<<>>}
  THEN {<<"bedrock config invalid">> \o e : e \in BedrockValidate(pc.Bedrock.val)}
  ELSE {<<>>}

\* genkitaws Config.Validate, monitoring_test.go:422-441: the possible error
\* chains for plugin config pc
PluginValidate(pc) ==
  IF pc.Region = "" THEN {<<"region is required">>}
  ELSE IF ~pc.Bedrock.nil /\ BedrockValidate(pc.Bedrock.val) # {<<>>}
  THEN {<<"bedrock config invalid">> \o e : e \in BedrockValidate(pc.Bedrock.val)}
  ELSE IF ~pc.CloudWatch.nil /\ Validate(pc.CloudWatch.val) # "nil"
  THEN {<<"cloudwatch config invalid", Validate(pc.CloudWatch.val)>>}
  ELSE {<<>>}

\* ---- construction: Validate, SetDefaults, NewCloudWatch, New and Init -----
\* a pointer: nil, or the address of val
Ptr(v) == [nil |-> FALSE, val |-> v]

NilPtr(zero) == [nil |-> TRUE, val |-> zero]

\* the monitoring configs the callers pass
ConfigInputs ==
  [Namespace : {"", "MyApp"},
   EnableFlowMetrics : BOOLEAN,
   EnableModelMetrics : BOOLEAN,
   EnableXRayTracing : BOOLEAN,
   CustomDimensions : {NilMap, MakeMap({<<"Env", "prod">>})},
   MetricBufferSize : {-1, 0, TestBufferSize}]

GoodModelConfig == [MaxTokens |-> 100, Temperature |-> 7, TopP |-> 9]

BadModelConfig == [MaxTokens |-> 100, Temperature |-> 11, TopP |-> 9]

EmptyBedrock == [Models |-> <<>>, ModelConfigs |-> {},
                 DefaultModelConfig |-> NilPtr(GoodModelConfig)]

\* the bedrock configs the callers pass
BedrockInputs ==
  {NilPtr(EmptyBedrock),
   Ptr(EmptyBedrock),
   Ptr([EmptyBedrock EXCEPT !.Models = <<"model">>]),
   Ptr([EmptyBedrock EXCEPT !.Models = <<"model", "">>]),
   Ptr([EmptyBedrock EXCEPT !.Models = <<"model">>,
                            !.ModelConfigs = {BadModelConfig}]),
   Ptr([EmptyBedrock EXCEPT !.Models = <<"model">>,
                            !.DefaultModelConfig = Ptr(BadModelConfig)])}

Regions == {"", "us-east-1"}

\* a call that has not started: fn is the function, arg the *monitoring.Config
\* (of genkitaws.Config for New), awsOK whether Config.AWSConfig succeeds,
\* nilPlugin whether New is given a nil *Config; client and monitor are the
\* fields of the Plugin
StartCall(fn, arg, region, bedrock, awsOK) ==
  [fn |-> fn, pc |-> "start", arg |-> arg, region |-> region,
   bedrock |-> bedrock, awsOK |-> awsOK, result |-> "none", err |-> <<>>,
   monitor |-> FALSE, client |-> FALSE, nilPlugin |-> FALSE]

\* the calls of the functions that take a monitoring config alone
ConfigCalls ==
  {StartCall(fn, Ptr(c), "", NilPtr(EmptyBedrock), TRUE) :
     fn \in {"Validate", "SetDefaults", "NewCloudWatch"}, c \in ConfigInputs}
  \cup {StartCall("NewCloudWatch", NilPtr(EmptyConfig), "",
                  NilPtr(EmptyBedrock), TRUE)}

\* the calls of genkitaws.New, each followed by Plugin.Init
PluginCalls ==
  {StartCall("New", arg, region, bedrock, awsOK) :
     arg \in {Ptr(c) : c \in ConfigInputs} \cup {NilPtr(EmptyConfig)},
     region \in Regions, bedrock \in BedrockInputs, awsOK \in BOOLEAN}
  \cup {[StartCall("New", NilPtr(EmptyConfig), "", NilPtr(EmptyBedrock), TRUE)
          EXCEPT !.nilPlugin = TRUE]}

\* the genkitaws.Config of a call of New; monitoring_test.go:314-316: a nil
\* config is replaced by &Config{}
PluginConfig(c) ==
  IF c.nilPlugin
  THEN [Region |-> "", Bedrock |-> NilPtr(EmptyBedrock),
        CloudWatch |-> NilPtr(EmptyConfig)]
  ELSE [Region |-> c.region, Bedrock |-> c.bedrock, CloudWatch |-> c.arg]

\* what the construction steps leave alone
buffering == <<pass, nSpawned, closeResult, closeMark, nsub, nput, failures,
               accepted, attempted, taken, requeued, datum, hook, bufferMutex>>

\* no instance yet: no ticker runs and no flushLoop
NoInstance ==
  /\ namespace = ""
  /\ metricBuffer = <<>>
  /\ nsub = 0
  /\ nput = 0
  /\ tickPending = FALSE
  /\ tickerStopped = TRUE
  /\ stopClosed = FALSE
  /\ loopExited = TRUE
  /\ pass = [t \in Tasks |-> IdlePass]
  /\ nSpawned = 0
  /\ closeResult = "none"
  /\ closeMark = 0
  /\ failures = 0
  /\ accepted = [x \in Points |-> 0]
  /\ attempted = {}
  /\ taken = [x \in Points |-> 0]
  /\ requeued = [x \in Points |-> 0]
  /\ datum = [x \in Points |-> NoDatum]
  /\ hook = NoHook
  /\ bufferMutex = Free

\* a caller holds a config and is about to call one of the functions
InitConfig ==
  /\ call \in ConfigCalls \cup PluginCalls
  /\ config = call.arg.val
  /\ MetricBufferSize = config.MetricBufferSize
  /\ NoInstance

\* c.Validate() on a monitoring config, config.go:34-44
ValidateCall ==
  /\ call.fn = "Validate"
  /\ call.pc = "start"
  /\ call' = [call EXCEPT !.pc = "done",
                !.result = IF Validate(config) = "nil" THEN "nil" ELSE "error",
                !.err = IF Validate(config) = "nil" THEN <<>>
                        ELSE <<Validate(config)>>]
  /\ UNCHANGED <<config, MetricBufferSize, namespace, metricBuffer,
                 tickPending, tickerStopped, stopClosed, loopExited>>
  /\ UNCHANGED buffering

\* c.SetDefaults() on a monitoring config, config.go:47-69
SetDefaultsCall ==
  /\ call.fn = "SetDefaults"
  /\ call.pc = "start"
  /\ config' = SetDefaults(config)
  /\ MetricBufferSize' = config'.MetricBufferSize
  /\ call' = [call EXCEPT !.pc = "done", !.result = "returned"]
  /\ UNCHANGED <<namespace, metricBuffer, tickPending, tickerStopped,
                 stopClosed, loopExited>>
  /\ UNCHANGED buffering

\* NewCloudWatch, cloudwatch.go:33-49: "instance" when it returns (cw, nil),
\* "panic" for a nil config (config.go:48) and for a negative capacity of
\* make (cloudwatch.go:40)
NewCloudWatchResult(arg) ==
  IF arg.nil THEN "panic"
  ELSE IF SetDefaults(arg.val).MetricBufferSize < 0 THEN "panic"
  ELSE "instance"

\* cloudwatch.go:36-46: the instance, its ticker and its flushLoop
StartInstance ==
  /\ namespace' = config'.Namespace
  /\ metricBuffer' = <<>>
  /\ stopClosed' = FALSE
  /\ tickPending' = FALSE
  /\ tickerStopped' = FALSE
  /\ loopExited' = FALSE

\* NewCloudWatch(ctx, awsCfg, arg): SetDefaults on the caller's config, then
\* the instance
NewCloudWatch(arg) ==
  /\ config' = IF arg.nil THEN config ELSE SetDefaults(config)
  /\ MetricBufferSize' = config'.MetricBufferSize
  /\ IF NewCloudWatchResult(arg) = "instance"
     THEN StartInstance
     ELSE UNCHANGED <<namespace, metricBuffer, tickPending, tickerStopped,
                      stopClosed, loopExited>>
  /\ UNCHANGED buffering

\* a direct call of NewCloudWatch
NewCloudWatchCall ==
  /\ call.fn = "NewCloudWatch"
  /\ call.pc = "start"
  /\ NewCloudWatch(call.arg)
  /\ call' = [call EXCEPT !.pc = "done",
                !.result = NewCloudWatchResult(call.arg),
                !.monitor = (NewCloudWatchResult(call.arg) = "instance")]

\* genkitaws.New, monitoring_test.go:313-323
New ==
  /\ call.fn = "New"
  /\ call.pc = "start"
  /\ \E e \in PluginValidate(PluginConfig(call)) :
       call' = IF e # <<>>
               THEN [call EXCEPT !.pc = "done", !.result = "error",
                       !.err = <<"invalid genkit-aws config">> \o e]
               ELSE [call EXCEPT !.pc = "init", !.result = "plugin"]
  /\ UNCHANGED <<config, MetricBufferSize, namespace, metricBuffer,
                 tickPending, tickerStopped, stopClosed, loopExited>>
  /\ UNCHANGED buffering

\* Plugin.Init, monitoring_test.go:331-357: panics when AWSConfig fails;
\* bedrock.NewClient is taken to return a client
PluginInit ==
  /\ call.fn = "New"
  /\ call.pc = "init"
  /\ IF ~call.awsOK
     THEN /\ call' = [call EXCEPT !.pc = "done", !.result = "panic"]
          /\ UNCHANGED <<config, MetricBufferSize, namespace, metricBuffer,
                         tickPending, tickerStopped, stopClosed, loopExited>>
          /\ UNCHANGED buffering
     ELSE IF call.arg.nil
     THEN /\ call' = [call EXCEPT !.pc = "done", !.result = "actions",
                        !.client = ~call.bedrock.nil]
          /\ UNCHANGED <<config, MetricBufferSize, namespace, metricBuffer,
                         tickPending, tickerStopped, stopClosed, loopExited>>
          /\ UNCHANGED buffering
     ELSE /\ NewCloudWatch(call.arg)
          /\ call' = [call EXCEPT !.pc = "done",
                        !.result = IF NewCloudWatchResult(call.arg) = "instance"
                                   THEN "actions" ELSE "panic",
                        !.client = ~call.bedrock.nil,
                        !.monitor = (NewCloudWatchResult(call.arg) = "instance")]

\* construction, then the ticker and the loop of the new instance
NextConfig ==
  \/ ValidateCall
  \/ SetDefaultsCall
  \/ NewCloudWatchCall
  \/ New
  \/ PluginInit
  \/ Tick
  \/ flushLoopTick
  \/ Swap(LoopTask)

ConfigSpec == InitConfig /\ [][NextConfig]_vars

\* the call is of a constructor and its monitoring config has no namespace
EmptyNamespaceGiven ==
  /\ call.fn \in {"NewCloudWatch", "New"}
  /\ ~call.arg.nil
  /\ call.arg.val.Namespace = ""

\* the instance is Running: its ticker or its flushLoop was started
Running == ~tickerStopped \/ ~loopExited

\* C16: with an empty namespace no constructor returns an instance and
\* neither the ticker nor flushLoop is started, on the direct path and on the
\* plugin path.
C16_EmptyNamespaceRejected ==
  EmptyNamespaceGiven =>
    /\ ~call.monitor
    /\ ~Running
    /\ call.pc = "done" => call.result \in {"error", "panic"}

\* ---- getErrorType ---------------------------------------------------------
\* a string is the sequence of its characters
UpperCase == <<"A", "B", "C", "D", "E", "F", "G", "H", "I", "J", "K", "L", "M",
               "N", "O", "P", "Q", "R", "S", "T", "U", "V", "W", "X", "Y", "Z">>

LowerCase == <<"a", "b", "c", "d", "e", "f", "g", "h", "i", "j", "k", "l", "m",
               "n", "o", "p", "q", "r", "s", "t", "u", "v", "w", "x", "y", "z">>

ToLowerChar(ch) ==
  IF \E k \in 1..Len(UpperCase) : UpperCase[k] = ch
  THEN LowerCase[CHOOSE k \in 1..Len(UpperCase) : UpperCase[k] = ch]
  ELSE ch

\* strings.ToLower
ToLower(s) == [k \in 1..Len(s) |-> ToLowerChar(s[k])]

\* strings.Contains
Contains(s, substr) ==
  \E i \in 0..(Len(s) - Len(substr)) : SubSeq(s, i + 1, i + Len(substr)) = substr

contains_CaseSensitive(s, substr) == Contains(s, substr)

\* contains, cloudwatch.go:249-251
contains(s, substr) == Contains(ToLower(s), ToLower(substr))

\* the keywords of cloudwatch.go:234-243
Str_timeout == <<"t", "i", "m", "e", "o", "u", "t">>

Str_connection == <<"c", "o", "n", "n", "e", "c", "t", "i", "o", "n">>

Str_auth == <<"a", "u", "t", "h">>

Str_throttle == <<"t", "h", "r", "o", "t", "t", "l", "e">>

Str_rate == <<"r", "a", "t", "e">>

\* getErrorType, cloudwatch.go:225-246; err is a pointer to the text of
\* err.Error()
getErrorType(err) ==
  IF err.nil THEN "Unknown"
  ELSE LET errStr == err.val IN
    IF contains(errStr, Str_timeout) THEN "Timeout"
    ELSE IF contains(errStr, Str_connection) THEN "Connection"
    ELSE IF contains(errStr, Str_auth) THEN "Authentication"
    ELSE IF contains(errStr, Str_throttle) THEN "Throttling"
    ELSE IF contains(errStr, Str_rate) THEN "RateLimit"
    ELSE "GenericError"

\* the longest error message, in words
MaxWords == 2

\* the words of the error messages: the keywords in several cases, words
\* that hold a keyword inside, and words that hold none
Words ==
  {Str_timeout,
   <<"T", "I", "M", "E", "O", "U", "T">>,
   <<"C", "o", "n", "n", "e", "c", "t", "i", "o", "n">>,
   <<"u", "n", "A", "u", "t", "h", "o", "r", "i", "z", "e", "d">>,
   Str_throttle,
   <<"g", "e", "n", "e", "R", "A", "T", "E">>,
   <<"t", "i", "m", "e", " ", "o", "u", "t">>,
   <<" ", "f", "a", "i", "l", "e", "d">>}

\* the messages of at most n words
RECURSIVE Messages(_)
Messages(n) ==
  IF n = 0 THEN {<<>>}
  ELSE Messages(n - 1) \cup {m \o w : m \in Messages(n - 1), w \in Words}

\* the errors the callers pass: nil, or an error with a message
Errors == {NilPtr(<<>>)} \cup {Ptr(m) : m \in Messages(MaxWords)}

InitErr ==
  /\ call \in {[fn |-> "getErrorType", pc |-> "start", err |-> e,
                result |-> "none"] : e \in Errors}
  /\ config = EmptyConfig
  /\ MetricBufferSize = 0
  /\ NoInstance

\* getErrorType(err) returns
getErrorTypeCall ==
  /\ call.fn = "getErrorType"
  /\ call.pc = "start"
  /\ call' = [call EXCEPT !.pc = "done", !.result = getErrorType(call.err)]
  /\ UNCHANGED <<config, MetricBufferSize, namespace, metricBuffer,
                 tickPending, tickerStopped, stopClosed, loopExited>>
  /\ UNCHANGED buffering

NextErr == getErrorTypeCall

ErrSpec == InitErr /\ [][NextErr]_vars

\* the rules in their order
Rules == <<[keyword |-> Str_timeout, category |-> "Timeout"],
           [keyword |-> Str_connection, category |-> "Connection"],
           [keyword |-> Str_auth, category |-> "Authentication"],
           [keyword |-> Str_throttle, category |-> "Throttling"],
           [keyword |-> Str_rate, category |-> "RateLimit"]>>

\* keyword occurs in message at some position, letter case aside
OccursIn(keyword, message) ==
  \E i \in 0..(Len(message) - Len(keyword)) :
    \A j \in 1..Len(keyword) :
      ToLowerChar(message[i + j]) = ToLowerChar(keyword[j])

MatchingRules(message) ==
  {k \in 1..Len(Rules) : OccursIn(Rules[k].keyword, message)}

\* C17: getErrorType returns Unknown for nil, the category of the first rule
\* whose keyword occurs in the message whatever the letter case, and
\* GenericError when no keyword occurs; it always returns one of the seven
\* categories.
C17_FirstMatchingRuleWins ==
  (call.fn = "getErrorType" /\ call.pc = "done") =>
    /\ call.result \in {"Unknown", "Timeout", "Connection", "Authentication",
                        "Throttling", "RateLimit", "GenericError"}
    /\ call.err.nil => call.result = "Unknown"
    /\ ~call.err.nil =>
         LET M == MatchingRules(call.err.val) IN
           /\ M = {} => call.result = "GenericError"
           /\ M # {} =>
                call.result = Rules[CHOOSE k \in M : \A l \in M : k <= l].category

\* a message with two keywords, one of them not in lower case, was classified
C17_Witness ==
  /\ call.fn = "getErrorType"
  /\ call.pc = "done"
  /\ ~call.err.nil
  /\ Cardinality(MatchingRules(call.err.val)) >= 2
  /\ ~Contains(call.err.val, Str_timeout)
  /\ call.result = "Timeout"

\* C18: Validate returns an error exactly when Namespace is empty or
\* MetricBufferSize is negative, the namespace error first; it returns nil
\* otherwise, also for MetricBufferSize 0, and leaves the config as it was.
C18_ValidateErrorIffInvalid ==
  (call.fn = "Validate" /\ call.pc = "done") =>
    LET c == call.arg.val IN
      /\ call.result = "error" <=> (c.Namespace = "" \/ c.MetricBufferSize < 0)
      /\ call.result \in {"error", "nil"}
      /\ c.Namespace = "" => call.err = <<"namespace is required">>
      /\ (c.Namespace # "" /\ c.MetricBufferSize < 0) =>
           call.err = <<"metric_buffer_size must be non-negative">>
      /\ (c.Namespace # "" /\ c.MetricBufferSize >= 0) => call.err = <<>>
      /\ config = c

\* Validate returned for a config with both faults
C18_Witness ==
  /\ call.fn = "Validate"
  /\ call.pc = "done"
  /\ call.arg.val.Namespace = ""
  /\ call.arg.val.MetricBufferSize < 0
  /\ call.result = "error"

\* C19: SetDefaults fills the unset fields and no other: Namespace,
\* MetricBufferSize, CustomDimensions, and both metric flags exactly when
\* neither was set, with or without EnableXRayTracing.
C19_SetDefaultsFillsUnsetOnly ==
  (call.fn = "SetDefaults" /\ call.pc = "done") =>
    LET c == call.arg.val
        neither == ~c.EnableFlowMetrics /\ ~c.EnableModelMetrics IN
      /\ config.Namespace =
           (IF c.Namespace = "" THEN "GenKit/AWS" ELSE c.Namespace)
      /\ config.MetricBufferSize =
           (IF c.MetricBufferSize = 0 THEN 20 ELSE c.MetricBufferSize)
      /\ config.CustomDimensions =
           (IF c.CustomDimensions.nil THEN MakeMap({}) ELSE c.CustomDimensions)
      /\ config.EnableFlowMetrics = (neither \/ c.EnableFlowMetrics)
      /\ config.EnableModelMetrics = (neither \/ c.EnableModelMetrics)
      /\ config.EnableXRayTracing = c.EnableXRayTracing

\* SetDefaults returned for a config with only EnableXRayTracing set
C19_Witness ==
  /\ call.fn = "SetDefaults"
  /\ call.pc = "done"
  /\ call.arg.val.EnableXRayTracing
  /\ ~call.arg.val.EnableFlowMetrics
  /\ ~call.arg.val.EnableModelMetrics
  /\ config.EnableFlowMetrics
  /\ config.EnableModelMetrics

\* ---- the hooks ------------------------------------------------------------
\* hook calls in a behaviour
MaxHooks == 2

HookNames == {"OnFlowStart", "OnFlowEnd", "OnFlowError", "OnGenerate"}

HookEnabled_FlowFlagOnly(name, c) == c.EnableFlowMetrics

\* cloudwatch.go:62, 75, 93 and 109: the flag a hook tests
HookEnabled(name, c) ==
  IF name = "OnGenerate" THEN c.EnableModelMetrics ELSE c.EnableFlowMetrics

\* cloudwatch.go:70, 85-88, 103-104 and 117-119: the putMetric calls of a
\* hook, in their order
HookMetrics(name) ==
  CASE name = "OnFlowStart" -> <<"FlowStarted">>
    [] name = "OnFlowEnd" -> <<"FlowCompleted", "FlowDuration">>
    [] name = "OnFlowError" -> <<"FlowError", "FlowDuration">>
    [] name = "OnGenerate" ->
         <<"TokensUsed", "GenerationDuration", "GenerationCount">>

\* cloudwatch.go:66-68, 79-82, 97-101 and 113-115: the map a hook passes to
\* buildDimensions; err is the error given to OnFlowError
HookDimensions(name, err) ==
  CASE name = "OnFlowStart" -> MakeMap({<<"FlowName", "flow">>})
    [] name = "OnFlowEnd" ->
         MakeMap({<<"FlowName", "flow">>, <<"Status", "Success">>})
    [] name = "OnFlowError" ->
         MakeMap({<<"FlowName", "flow">>, <<"Status", "Error">>,
                  <<"ErrorType", getErrorType(err)>>})
    [] name = "OnGenerate" -> MakeMap({<<"ModelID", "model">>})

\* the orders in which a range loop can visit the entries of a map
RECURSIVE RangeOrders(_)
RangeOrders(entries) ==
  IF entries = {} THEN {<<>>}
  ELSE UNION {{<<[Name |-> e[1], Value |-> e[2]]>> \o rest :
                 rest \in RangeOrders(entries \ {e})} : e \in entries}

\* buildDimensions, cloudwatch.go:202-222: the custom dimensions, then the
\* hook's own, each map in any order
buildDimensions(custom, dimensions) ==
  {c \o d : c \in RangeOrders(custom.entries),
            d \in RangeOrders(dimensions.entries)}

\* the error given to OnFlowError
HookErrors == {Ptr(Str_timeout)}

\* a hook is called: it returns at once when its flag is off, and builds its
\* dimensions otherwise
HookEnter(name) ==
  /\ hook.todo = <<>>
  /\ hook.calls < MaxHooks
  /\ IF ~HookEnabled(name, config)
     THEN hook' = [name |-> name, todo |-> <<>>, dims |-> <<>>,
                   calls |-> hook.calls + 1, start |-> nsub]
     ELSE \E err \in HookErrors :
          \E dims \in buildDimensions(config.CustomDimensions,
                                      HookDimensions(name, err)) :
            hook' = [name |-> name, todo |-> HookMetrics(name), dims |-> dims,
                     calls |-> hook.calls + 1, start |-> nsub]
  /\ UNCHANGED <<metricBuffer, MetricBufferSize, tickPending, tickerStopped,
                 stopClosed, loopExited, pass, nSpawned, closeResult,
                 closeMark, nsub, nput, failures, accepted, attempted, taken,
                 requeued, namespace, config, datum, bufferMutex, call>>

\* the next putMetric call of the running hook
HookPutMetric ==
  /\ hook.todo # <<>>
  /\ PutMetricCall(Head(hook.todo), hook.dims)
  /\ hook' = [hook EXCEPT !.todo = Tail(hook.todo)]
  /\ UNCHANGED <<namespace, config, bufferMutex, call>>

\* the configs an instance can have after SetDefaults, with the buffer size
\* of the integration test
HookConfigs ==
  {[SetDefaults(c) EXCEPT !.MetricBufferSize = TestBufferSize] :
     c \in {i \in ConfigInputs : i.Namespace = "" /\ i.MetricBufferSize = 0
                                   /\ ~i.EnableXRayTracing}}

InitHooks ==
  /\ config \in HookConfigs
  /\ MetricBufferSize = config.MetricBufferSize
  /\ namespace = config.Namespace
  /\ nsub \in FirstBursts(MetricBufferSize)
  /\ metricBuffer = [k \in 1..nsub |-> k]
  /\ nput = 0
  /\ tickPending = FALSE
  /\ tickerStopped = FALSE
  /\ stopClosed = FALSE
  /\ loopExited = FALSE
  /\ pass = [t \in Tasks |-> IdlePass]
  /\ nSpawned = 0
  /\ closeResult = "none"
  /\ closeMark = 0
  /\ failures = 0
  /\ accepted = [x \in Points |-> 0]
  /\ attempted = {}
  /\ taken = [x \in Points |-> 0]
  /\ requeued = [x \in Points |-> 0]
  /\ datum = [x \in Points |->
               IF x <= nsub THEN MetricDatum("FlowStarted", FlowDims)
               ELSE NoDatum]
  /\ hook = NoHook
  /\ bufferMutex = Free
  /\ call = NoCall

NextHooks ==
  \/ \E name \in HookNames : HookEnter(name)
  \/ HookPutMetric
  \/ \E t \in GoTasks : Swap(t) \/ SendOK(t)

HookSpec == InitHooks /\ [][NextHooks]_vars

\* the points a hook is to append, by its flag
ExpectedPoints(name, c) ==
  IF name \in {"OnFlowStart", "OnFlowEnd", "OnFlowError"}
     /\ ~c.EnableFlowMetrics THEN <<>>
  ELSE IF name = "OnGenerate" /\ ~c.EnableModelMetrics THEN <<>>
  ELSE IF name = "OnFlowStart" THEN <<"FlowStarted">>
  ELSE IF name = "OnFlowEnd" THEN <<"FlowCompleted", "FlowDuration">>
  ELSE IF name = "OnFlowError" THEN <<"FlowError", "FlowDuration">>
  ELSE <<"TokensUsed", "GenerationDuration", "GenerationCount">>

\* C20: a hook whose flag is off leaves the buffer alone and starts no
\* flush; a hook whose flag is on appends its points at the tail, one per
\* putMetric call, and when it returns it has appended exactly its 1, 2 or 3
\* points, with their names in the order of the code.
C20_HooksGatedAndCounted ==
  [][ /\ hook'.calls = hook.calls + 1 =>
           /\ metricBuffer' = metricBuffer
           /\ nsub' = nsub
           /\ nSpawned' = nSpawned
           /\ pass' = pass
      /\ (hook'.calls = hook.calls /\ hook' # hook) =>
           /\ nsub' = nsub + 1
           /\ metricBuffer' = Append(metricBuffer, nsub')
      /\ (hook' # hook /\ hook'.todo = <<>>) =>
           LET e == ExpectedPoints(hook'.name, config) IN
             /\ nsub' = hook'.start + Len(e)
             /\ \A k \in 1..Len(e) : datum'[hook'.start + k].name = e[k]
    ]_vars

\* OnGenerate returned after its three points, with EnableFlowMetrics off
C20_Witness ==
  /\ hook.name = "OnGenerate"
  /\ hook.todo = <<>>
  /\ nsub = hook.start + 3
  /\ ~config.EnableFlowMetrics
  /\ config.EnableModelMetrics

\* a model config with a field out of range
ModelConfigInvalid(mc) ==
  \/ mc.MaxTokens < 0
  \/ mc.Temperature < 0 \/ mc.Temperature > One
  \/ mc.TopP < 0 \/ mc.TopP > One

\* a bedrock config that Validate refuses
BedrockInvalid(b) ==
  \/ b.Models = <<>>
  \/ "" \in Range(b.Models)
  \/ \E mc \in b.ModelConfigs : ModelConfigInvalid(mc)
  \/ ~b.DefaultModelConfig.nil /\ ModelConfigInvalid(b.DefaultModelConfig.val)

\* the plugin config of the call fails validation
PluginInvalid ==
  \/ call.nilPlugin
  \/ call.region = ""
  \/ ~call.bedrock.nil /\ BedrockInvalid(call.bedrock.val)
  \/ /\ ~call.arg.nil
     /\ call.arg.val.Namespace = "" \/ call.arg.val.MetricBufferSize < 0

C22_OneMutatorAtATime ==
  [][ /\ Cardinality(bufferMutex) <= 1
      /\ Cardinality(bufferMutex') <= 1
      /\ (metricBuffer' # metricBuffer \/ nsub' # nsub) =>
           /\ bufferMutex # {}
           /\ bufferMutex' = {}
      /\ nsub' # nsub => bufferMutex \subseteq Producers
      /\ \A t \in Tasks :
           (pass[t].pc \in {"swap", "requeue"} /\ pass'[t].pc # pass[t].pc) =>
             bufferMutex = {t}
    ]_vars

\* a pass holds the lock for its re-append while a producer and another pass
\* wait for it
C22_Witness ==
  \E t, u \in Tasks :
    /\ t # u
    /\ bufferMutex = {t}
    /\ pass[t].pc = "requeue"
    /\ pass[u].pc = "swap"
    /\ nput < MaxSubmits

\* ---- custom dimensions that share a key with a hook -----------------------
\* the CustomDimensions of the configs: a key of its own, and keys that the
\* hooks use too
CustomInputs == {MakeMap({<<"Env", "prod">>}),
                 MakeMap({<<"FlowName", "custom">>, <<"ModelID", "custom">>})}

DimConfigs ==
  {[c EXCEPT !.CustomDimensions = d] : c \in HookConfigs, d \in CustomInputs}

InitDims ==
  /\ config \in DimConfigs
  /\ MetricBufferSize = config.MetricBufferSize
  /\ namespace = config.Namespace
  /\ nsub = 0
  /\ metricBuffer = <<>>
  /\ nput = 0
  /\ tickPending = FALSE
  /\ tickerStopped = FALSE
  /\ stopClosed = FALSE
  /\ loopExited = FALSE
  /\ pass = [t \in Tasks |-> IdlePass]
  /\ nSpawned = 0
  /\ closeResult = "none"
  /\ closeMark = 0
  /\ failures = 0
  /\ accepted = [x \in Points |-> 0]
  /\ attempted = {}
  /\ taken = [x \in Points |-> 0]
  /\ requeued = [x \in Points |-> 0]
  /\ datum = [x \in Points |-> NoDatum]
  /\ hook = NoHook
  /\ bufferMutex = Free
  /\ call = NoCall

\* the hooks of one caller, nothing else running
NextDims ==
  \/ \E name \in HookNames : HookEnter(name)
  \/ HookPutMetric

DimSpec == InitDims /\ [][NextDims]_vars

\* the keys of a list of dimensions are pairwise distinct
DistinctKeys(dims) ==
  \A j, k \in 1..Len(dims) : j # k => dims[j].Name # dims[k].Name

\* C23: every point in the buffer has pairwise distinct dimension keys.
C23_DimensionKeysDistinct ==
  \A x \in Range(metricBuffer) : DistinctKeys(datum[x].dims)

\* C24: a pass returns an error exactly when one of its PutMetricData calls
\* failed; at the step that returns the error the failed chunk is in the
\* buffer again, and a pass that returned nil had every point of its
\* snapshot accepted.
C24_ErrorIffSinkCallFailed ==
  [][ \A t \in Tasks :
        LET p == pass'[t] IN
          /\ p.pc = "done" =>
               /\ p.ret \in {"nil", "err"}
               /\ p.ret = "err" <=> p.fails > 0
               /\ p.ret = "nil" => \A x \in Range(p.snap) : accepted'[x] > 0
          /\ (p.pc = "done" /\ pass[t].pc # "done" /\ p.ret = "err") =>
               Range(Batch(p.snap, p.i)) \subseteq Range(metricBuffer')
          /\ p.pc # "done" => p.ret \in {"none", "err"}
          /\ (p.pc # "done" /\ p.ret = "err") => p.fails > 0
    ]_vars

\* a pass of two chunks returned the error of its first chunk
C24_Witness ==
  \E t \in Tasks :
    /\ Finished(t)
    /\ pass[t].ret = "err"
    /\ pass[t].fails = 1
    /\ Len(pass[t].snap) > MaxMetricsPerRequest
    /\ pass[t].calls = 1

\* pass t, started by the ticker or by putMetric, returns an error in this
\* step
BackgroundPassFails(t) ==
  /\ t # CloseTask
  /\ pass[t].pc # "done"
  /\ pass'[t].pc = "done"
  /\ pass'[t].ret = "err"

SendOutage(t) ==
  /\ failures < MaxRetries + MaxFailures
  /\ DoSendFail(t)

NextOutage ==
  \/ putMetric
  \/ Tick
  \/ flushLoopTick
  \/ \E t \in Tasks : Swap(t) \/ SendOutage(t) \/ Requeue(t)

OutageSpec == Init /\ [][NextOutage]_vars

\* the points of the requests of a pass
SentBy(p) == UNION {Range(p.sent[k].MetricData) : k \in 1..Len(p.sent)}

\* C26: during an outage a point whose batch failed is in a PutMetricData
\* call of every later pass that takes it.
C26_FailedPointRetriedByEveryPass ==
  \A t \in Tasks :
    Finished(t) =>
      \A x \in Range(pass[t].snap) : requeued[x] > 0 => x \in SentBy(pass[t])

\* ---- Close called again ---------------------------------------------------
CloseStopCh_Idempotent(closed) == "closed"

\* close(cw.stopCh), cloudwatch.go:53: closing a closed channel panics
CloseStopCh(closed) == IF closed THEN "panic" ELSE "closed"

\* a call of Close on an instance on which Close was called before, by
\* another caller; it panics at cloudwatch.go:53 and runs lines 54-57 only if
\* close returned
CloseAgain ==
  /\ stopClosed
  /\ call = NoCall
  /\ IF CloseStopCh(stopClosed) = "panic"
     THEN /\ call' = [fn |-> "Close", result |-> "panic"]
          /\ UNCHANGED <<tickerStopped, closeMark, pass>>
     ELSE /\ call' = [fn |-> "Close", result |-> "running"]
          /\ tickerStopped' = TRUE
          /\ closeMark' = nsub
          /\ pass' = [pass EXCEPT ![CloseTask] = NewPass("close")]
  /\ UNCHANGED <<metricBuffer, MetricBufferSize, tickPending, stopClosed,
                 loopExited, nSpawned, closeResult, nsub, nput, failures,
                 accepted, attempted, taken, requeued, namespace, config,
                 datum, hook, bufferMutex>>

\* the instance with its callers of Close; the ticker does not fire
NextClose ==
  \/ putMetric
  \/ Close
  \/ CloseAgain
  \/ flushLoopStop
  \/ flushMetrics

CloseSpec == Init /\ [][NextClose]_vars

\* C27: a call of Close after or during an earlier one panics when it closes
\* the stop channel: it stops no ticker, starts no pass, makes no sink call
\* and leaves the buffer as it is.
C27_SecondClosePanics ==
  [][ call' # call =>
        /\ stopClosed
        /\ call'.fn = "Close"
        /\ call'.result = "panic"
        /\ metricBuffer' = metricBuffer
        /\ pass' = pass
        /\ tickerStopped' = tickerStopped
        /\ attempted' = attempted
        /\ closeResult' = closeResult
        /\ closeMark' = closeMark
    ]_vars

\* the second Close panicked while the pass of the first was in a sink call
\* and points were in the buffer
C27_Witness ==
  /\ call.fn = "Close"
  /\ call.result = "panic"
  /\ pass[CloseTask].pc = "send"
  /\ Len(metricBuffer) > 0

\* ---- putMetric on a stopped instance --------------------------------------
\* putMetric before Close has returned
putMetricRunning ==
  /\ closeResult = "none"
  /\ putMetric

\* putMetric after Close has returned: the same code; call keeps the first
\* such call and the point it appended
putMetricStopped ==
  /\ closeResult # "none"
  /\ nput < MaxSubmits
  /\ PutMetricCall("FlowStarted", FlowDims)
  /\ call' = IF call = NoCall
             THEN [fn |-> "putMetric", first |-> nsub + 1]
             ELSE call
  /\ UNCHANGED <<namespace, config, hook, bufferMutex>>

NextStopped ==
  \/ putMetricRunning
  \/ putMetricStopped
  \/ Tick
  \/ flushLoopTick
  \/ flushLoopStop
  \/ Close
  \/ flushMetrics

StoppedSpec == Init /\ [][NextStopped]_vars

\* the points submitted after Close returned
SubmittedAfterClose ==
  IF call.fn = "putMetric" THEN {x \in 1..nsub : x >= call.first} ELSE {}

\* C28: a point submitted after Close returned is appended, and it is in
\* PutMetricData calls of threshold passes only, never of a timer pass.
C28_AfterCloseOnlyThresholdPassSends ==
  /\ \A x \in SubmittedAfterClose :
       taken[x] = 0 => x \in Range(metricBuffer)
  /\ \A t \in Tasks :
       SentBy(pass[t]) \cap SubmittedAfterClose # {} =>
         pass[t].kind = "threshold"

\* C29: every putMetric that leaves the buffer at or above MetricBufferSize
\* starts a pass on a goroutine of its own, also when the buffer was at the
\* threshold before; the points that running passes hold are disjoint, so a
\* point is obtained by one pass only, and a pass that found the buffer empty
\* makes no PutMetricData call.
C29_EverySubmitAtThresholdStartsPass ==
  [][ /\ (nsub' = nsub + 1 /\ Len(metricBuffer') >= MetricBufferSize) =>
           /\ nSpawned' = nSpawned + 1
           /\ pass[nSpawned'].pc = "idle"
           /\ pass'[nSpawned'] = NewPass("threshold")
           /\ \A t \in Tasks \ {nSpawned'} : pass'[t] = pass[t]
      /\ \A t, u \in Tasks :
           t # u => Pending(pass'[t]) \cap Pending(pass'[u]) = {}
      /\ \A t \in Tasks :
           /\ Pending(pass'[t]) \cap Range(metricBuffer') = {}
           /\ (pass'[t].pc = "done" /\ pass'[t].snap = <<>>) =>
                (pass'[t].calls = 0 /\ pass'[t].sent = <<>>)
    ]_vars

\* two passes started by two putMetric calls in a row, the timer pass and the
\* pass of Close are under way at once: one threshold pass got the content of
\* both calls, the other found nothing and made no call
C29_Witness ==
  \E t, u \in GoTasks :
    /\ t # u
    /\ pass[t].pc = "send"
    /\ Len(pass[t].snap) > MetricBufferSize
    /\ Finished(u)
    /\ pass[u].snap = <<>>
    /\ pass[u].calls = 0
    /\ Active(pass[LoopTask])
    /\ Active(pass[CloseTask])

\* pass t re-appends its failed chunk in this step
Requeues(t) == pass[t].pc = "requeue" /\ pass'[t].pc # "requeue"

\* C30: the re-append puts the failed chunk behind everything the buffer
\* holds, which is what was submitted since the Swap of the pass; it starts
\* no pass, whatever the length of the buffer, and touches neither the other
\* passes nor the ticker nor the counts of the sink.
C30_RequeueAtTailStartsNoPass ==
  [][ \A t \in Tasks :
        Requeues(t) =>
          LET p == pass[t]
              n == Min(MaxMetricsPerRequest, Len(p.snap) - p.i) IN
            /\ Len(metricBuffer') = Len(metricBuffer) + n
            /\ \A k \in 1..Len(metricBuffer) : metricBuffer'[k] = metricBuffer[k]
            /\ \A k \in 1..n :
                 metricBuffer'[Len(metricBuffer) + k] = p.snap[p.i + k]
            /\ \A x \in Range(metricBuffer) : taken[x] = 0 \/ requeued[x] > 0
            /\ nSpawned' = nSpawned
            /\ \A u \in Tasks \ {t} : pass'[u] = pass[u]
            /\ pass'[t].pc = "done"
            /\ tickPending' = tickPending
            /\ nsub' = nsub
            /\ accepted' = accepted
            /\ attempted' = attempted
            /\ failures' = failures
    ]_vars

\* a re-append behind a point submitted since the Swap has brought the buffer
\* to MetricBufferSize or more, and no pass runs and no tick waits
C30_Witness ==
  \E t \in Tasks :
    /\ Finished(t)
    /\ pass[t].ret = "err"
    /\ Len(metricBuffer) >= MetricBufferSize
    /\ requeued[metricBuffer[Len(metricBuffer)]] > 0
    /\ requeued[metricBuffer[1]] = 0
    /\ \A u \in Tasks : ~Active(pass[u])
    /\ ~tickPending
====
